---- MODULE Spec2Model ----
(***************************************************************************)
(* Verification model of the COREv2 helper scripts:                        *)
(*   test_integer_validation.py    the Validation Guard (df coercion and   *)
(*                                 sample-size floor)                      *)
(*   combine_returns_tables.py     the returns panel assembler             *)
(*   combine_regime_labels.py      the regime-label panel assembler        *)
(*   verify_execution_readiness.py the readiness check                     *)
(*                                                                         *)
(* Numbers that may be fractional (raw tail-weight estimates, sizes) are   *)
(* fixed-point: the integer v stands for the real number v / Den.          *)
(* Python strings are TLA+ strings; Chars(s) is the string's sequence of   *)
(* characters, on which the substring, prefix and lower-case tests of the  *)
(* code are computed.                                                      *)
(***************************************************************************)
EXTENDS Integers, Sequences, FiniteSets, TLC

VARIABLES
    \* test_integer_validation.py
    gpc, nu, size, df, nSim, sampling, origin, df_int,
    \* one pass of a combiner's loop over products, on its own
    lpc, lcombiner, lproduct, lfile, lout,
    \* a run of combine_returns_tables or combine_regime_labels
    ppc, combiner, idx, combined, log, saved, report, result,
    \* a run of verify_execution_readiness.main
    rpc, rk, all_checks_passed, stdout, summary, rresult,
    \* a run of verifyRobustImplementation.main
    vpc, vk, core_files_present, enhanced_files_present, found, notes, status

gvars == <<gpc, nu, size, df, nSim, sampling, origin, df_int>>
lvars == <<lpc, lcombiner, lproduct, lfile, lout>>
pvars == <<ppc, combiner, idx, combined, log, saved, report, result>>
rvars == <<rpc, rk, all_checks_passed, stdout, summary, rresult>>
vvars == <<vpc, vk, core_files_present, enhanced_files_present, found, notes, status>>
vars == <<gvars, lvars, pvars, rvars, vvars>>

(***************************************************************************)
(* Bounds of the model.                                                    *)
(***************************************************************************)
\* resolution of the fixed-point numbers: v stands for v / Den
Den == 10
\* raw estimates range over [-MaxNu, MaxNu]
MaxNu == 12
\* observation counts range over 0..MaxOver and Cap-MaxOver..Cap+MaxOver
MaxOver == 5

\* a loaded matrix has at most MaxDim rows and MaxDim columns
MaxDim == 2
\* a structured returnsTable declares at most MaxFields fields
MaxFields == 2

(***************************************************************************)
(* Python strings.                                                         *)
(***************************************************************************)
\* the characters of every string the combiners meet
Chars(s) ==
    CASE s = "nodalPrices" -> <<"n", "o", "d", "a", "l", "P", "r", "i", "c", "e", "s">>
      [] s = "hubPrices" -> <<"h", "u", "b", "P", "r", "i", "c", "e", "s">>
      [] s = "nodalGeneration" -> <<"n", "o", "d", "a", "l", "G", "e", "n", "e", "r", "a", "t", "i", "o", "n">>
      [] s = "regup" -> <<"r", "e", "g", "u", "p">>
      [] s = "regdown" -> <<"r", "e", "g", "d", "o", "w", "n">>
      [] s = "nonspin" -> <<"n", "o", "n", "s", "p", "i", "n">>
      [] s = "hourlyHubForecasts" -> <<"h", "o", "u", "r", "l", "y", "H", "u", "b", "F", "o", "r", "e", "c", "a", "s", "t", "s">>
      [] s = "hourlyNodalForecasts" -> <<"h", "o", "u", "r", "l", "y", "N", "o", "d", "a", "l", "F", "o", "r", "e", "c", "a", "s", "t", "s">>
      [] s = "Timestamp" -> <<"T", "i", "m", "e", "s", "t", "a", "m", "p">>
      [] s = "Time" -> <<"T", "i", "m", "e">>
      [] s = "Date" -> <<"D", "a", "t", "e">>
      [] s = "DateTime" -> <<"D", "a", "t", "e", "T", "i", "m", "e">>
      [] s = "Value" -> <<"V", "a", "l", "u", "e">>
      [] s = "regup_returns" -> <<"r", "e", "g", "u", "p", "_", "r", "e", "t", "u", "r", "n", "s">>
      [] s = "returnsTable" -> <<"r", "e", "t", "u", "r", "n", "s", "T", "a", "b", "l", "e">>
      [] s = "regimeLabels" -> <<"r", "e", "g", "i", "m", "e", "L", "a", "b", "e", "l", "s">>
      [] s = "__header__" -> <<"_", "_", "h", "e", "a", "d", "e", "r", "_", "_">>
      [] s = "__version__" -> <<"_", "_", "v", "e", "r", "s", "i", "o", "n", "_", "_">>
      [] s = "__globals__" -> <<"_", "_", "g", "l", "o", "b", "a", "l", "s", "_", "_">>
      [] s = "time" -> <<"t", "i", "m", "e">>
      [] s = "date" -> <<"d", "a", "t", "e">>
      [] s = "__" -> <<"_", "_">>
      [] s = "" -> <<>>

UpperCase == <<"A", "B", "C", "D", "E", "F", "G", "H", "I", "J", "K", "L", "M",
               "N", "O", "P", "Q", "R", "S", "T", "U", "V", "W", "X", "Y", "Z">>
LowerCase == <<"a", "b", "c", "d", "e", "f", "g", "h", "i", "j", "k", "l", "m",
               "n", "o", "p", "q", "r", "s", "t", "u", "v", "w", "x", "y", "z">>

\* str.lower(), on the characters
Lower(cs) ==
    [i \in 1..Len(cs) |->
        IF \E j \in 1..Len(UpperCase) : UpperCase[j] = cs[i]
        THEN LowerCase[CHOOSE j \in 1..Len(UpperCase) : UpperCase[j] = cs[i]]
        ELSE cs[i]]

\* sub in s, on the characters
Contains(sub, cs) ==
    \E i \in 0..(Len(cs) - Len(sub)) : SubSeq(cs, i + 1, i + Len(sub)) = sub

\* s.startswith(pre), on the characters
StartsWith(cs, pre) ==
    /\ Len(pre) <= Len(cs)
    /\ SubSeq(cs, 1, Len(pre)) = pre

(***************************************************************************)
(* Validation Guard: test_integer_validation.py                            *)
(***************************************************************************)
Fix(k) == k * Den

\* the cap of the sample size, 1000
Cap == 1000

\* Python's max(a, b) and min(a, b) on numbers
Max(a, b) == IF b > a THEN b ELSE a
Min(a, b) == IF b < a THEN b ELSE a

\* Python 3 round(v): the nearest integer, a tie going to the even one
Round(v) ==
    LET q == v \div Den
        r == v % Den
    IN  IF 2 * r < Den THEN Fix(q)
        ELSE IF 2 * r > Den THEN Fix(q + 1)
        ELSE IF q % 2 = 0 THEN Fix(q) ELSE Fix(q + 1)

\* math.floor(v)
Floor(v) == Fix(v \div Den)

Guard_NoMax(x) == Round(x)

Guard_HalfUp(x) == Round(Max(Fix(1), x) + Den \div 2)

\* df_int = round(max(1, nu))
Guard(x) == Round(Max(Fix(1), x))

SampleCount_Max(n) == Floor(Max(Fix(Cap), n))

\* nSim = math.floor(min(1000, size))
SampleCount(n) == Floor(Min(Fix(Cap), n))

\* if nSim >= 2
Proceeds(k) == k >= Fix(2)

\* the values of nu the test may be given: every multiple of 1/Den in range
RawEstimates == (0 - Fix(MaxNu))..Fix(MaxNu)

\* the matrix sizes: whole numbers, small ones and those around the cap
Sizes == {Fix(k) : k \in (0..MaxOver) \cup ((Cap - MaxOver)..(Cap + MaxOver))}

GuardInit ==
    /\ gpc = "start"
    /\ nu \in RawEstimates
    /\ size \in Sizes
    /\ df = 0
    /\ nSim = 0
    /\ sampling = "none"
    /\ origin = "none"
    /\ df_int = 0

\* one pass of the loop over test_values
FitCoerce ==
    /\ gpc = "start"
    /\ df' = Guard(nu)
    /\ gpc' = "fitted"
    /\ origin' = "fit"
    /\ UNCHANGED <<nu, size, nSim, sampling, df_int>>

\* one pass of the loop over test_sizes
SizeCheck ==
    /\ gpc = "fitted"
    /\ nSim' = SampleCount(size)
    /\ sampling' = IF Proceeds(nSim') THEN "proceed" ELSE "skip"
    /\ gpc' = "done"
    /\ UNCHANGED <<nu, size, df, origin, df_int>>

\* a model that was not fitted here but read from storage: its degrees of
\* freedom is whatever was stored, not passed through the guard
LoadStored ==
    /\ gpc = "start"
    /\ df' = nu
    /\ gpc' = "loaded"
    /\ origin' = "loaded"
    /\ UNCHANGED <<nu, size, nSim, sampling, df_int>>

\* the sample side: df_int = round(max(1, regimeCopulas(r).df)), on the
\* stored degrees of freedom, before the correlated draw
SampleCoerce ==
    /\ gpc \in {"done", "loaded"}
    /\ df_int' = Guard(df)
    /\ gpc' = "sampled"
    /\ UNCHANGED <<nu, size, df, nSim, sampling, origin>>

(***************************************************************************)
(* numpy arrays and the data scipy.io.loadmat returns.  An array is one-   *)
(* dimensional (vec) or two-dimensional (rows, each a sequence); a         *)
(* structured array also has field names and one array per field.  An      *)
(* element is a string: a number's digits, or "NaN".                       *)
(***************************************************************************)
\* a one-dimensional array
Vec(v) == [names |-> <<>>, fields |-> <<>>, ndim |-> 1, rows |-> <<>>, vec |-> v]

\* a two-dimensional array, as loadmat returns a MATLAB matrix
Plain(rows) == [names |-> <<>>, fields |-> <<>>, ndim |-> 2, rows |-> rows, vec |-> <<>>]

\* a structured array: dtype.names and the array of each field
Struct(names, fields) ==
    [names |-> names, fields |-> fields, ndim |-> 2, rows |-> <<>>, vec |-> <<>>]

\* np.array([])
EmptyArr == Vec(<<>>)

\* a.shape[0] and a.shape[1] of a two-dimensional array
Shape0(a) == Len(a.rows)
Shape1(a) == IF Len(a.rows) = 0 THEN 0 ELSE Len(a.rows[1])

RECURSIVE ConcatRows(_)
ConcatRows(rows) ==
    IF rows = <<>> THEN <<>> ELSE Head(rows) \o ConcatRows(Tail(rows))

\* the elements of an array in row-major order
Elements(a) == IF a.ndim = 1 THEN a.vec ELSE ConcatRows(a.rows)

\* ndarray.flatten(): a one-dimensional copy, in row-major order
Flatten(a) == Vec(Elements(a))

\* len(a): the size of the first dimension
PyLen(a) == IF a.ndim = 1 THEN Len(a.vec) ELSE Len(a.rows)

\* np.isnan, on one element
IsNaN(v) == v = "NaN"

\* np.sum(~np.isnan(a))
CountValid(a) ==
    LET e == Elements(a)
    IN  Cardinality({i \in 1..Len(e) : ~IsNaN(e[i])})

\* np.unique(a[~np.isnan(a)])
UniqueValid(a) ==
    LET e == Elements(a)
    IN  {e[i] : i \in {j \in 1..Len(e) : ~IsNaN(e[j])}}

(***************************************************************************)
(* Python dicts: a sequence of key/value entries in insertion order.       *)
(***************************************************************************)
DictKeys(d) == [i \in 1..Len(d) |-> d[i].k]

DictHas(d, key) == \E i \in 1..Len(d) : d[i].k = key

DictGet(d, key) == d[CHOOSE i \in 1..Len(d) : d[i].k = key].v

\* d[key] = value: a new key goes last, a known key keeps its place
DictSet(d, key, value) ==
    IF DictHas(d, key)
    THEN [i \in 1..Len(d) |-> IF d[i].k = key THEN [k |-> key, v |-> value] ELSE d[i]]
    ELSE Append(d, [k |-> key, v |-> value])

(***************************************************************************)
(* The products and one pass of each combiner's loop.                      *)
(***************************************************************************)
\* products
Products ==
    <<"nodalPrices", "hubPrices", "nodalGeneration", "regup", "regdown",
      "nonspin", "hourlyHubForecasts", "hourlyNodalForecasts">>

\* a line the loop prints for a product: what happened, and the count shown
Line(kind, n, regimes) == [kind |-> kind, n |-> n, regimes |-> regimes]

\* what a pass leaves: the value stored under the product, the line printed
\* and the data field chosen ("" when none was looked for)
Pass(value, line, field) == [value |-> value, line |-> line, field |-> field]

\* main_vars = [key for key in data.keys() if not key.startswith('__')]
IsMainVar(key) == ~StartsWith(Chars(key), Chars("__"))
MainVars(data) == SelectSeq(DictKeys(data), IsMainVar)

FieldMatches_NoTimeTest(product, field) ==
    Contains(Chars(product), Chars(field)) \/ field # "Time"

\* product in field or (field != 'Timestamp' and field != 'Time')
FieldMatches(product, field) ==
    Contains(Chars(product), Chars(field)) \/ (field # "Timestamp" /\ field # "Time")

\* the for loop with its break: the first field that matches, "" for None
RECURSIVE FirstMatch(_, _)
FirstMatch(product, field_names) ==
    IF field_names = <<>> THEN ""
    ELSE IF FieldMatches(product, Head(field_names)) THEN Head(field_names)
    ELSE FirstMatch(product, Tail(field_names))

\* 'time' not in f.lower() and 'date' not in f.lower()
IsNonTime(f) ==
    /\ ~Contains(Chars("time"), Lower(Chars(f)))
    /\ ~Contains(Chars("date"), Lower(Chars(f)))
NonTimeFields(field_names) == SelectSeq(field_names, IsNonTime)

\* the field of a structured returnsTable whose data is stored
SelectField(product, field_names) ==
    LET data_field == FirstMatch(product, field_names)
        non_time_fields == NonTimeFields(field_names)
    IN  IF data_field # "" THEN data_field
        ELSE IF non_time_fields # <<>> THEN non_time_fields[1]
        ELSE field_names[1]

\* returns_data[field]
FieldOf(a, field) == a.fields[CHOOSE i \in 1..Len(a.names) : a.names[i] = field]

\* the value stored for a product that could not be loaded
MissingValue == EmptyArr

\* the body of the loop of combine_returns_tables, for one product
ReturnsPass(product, file) ==
    IF ~file.exists THEN Pass(MissingValue, Line("notfound", 0, {}), "")
    ELSE IF file.raises THEN Pass(MissingValue, Line("error", 0, {}), "")
    ELSE IF "returnsTable" \in {MainVars(file.data)[i] : i \in 1..Len(MainVars(file.data))}
    THEN LET returns_data == DictGet(file.data, "returnsTable")
             field == IF returns_data.names # <<>>
                      THEN SelectField(product, returns_data.names) ELSE ""
             value == IF returns_data.names # <<>>
                      THEN Flatten(FieldOf(returns_data, field))
                      ELSE Flatten(returns_data)
         IN  Pass(value, Line("ok", PyLen(value), {}), field)
    ELSE Pass(MissingValue, Line("novar", 0, {}), "")

NeedsFlatten_RowOnly(a) == a.ndim = 2 /\ Shape0(a) = 1

\* regime_data.ndim == 2 and (shape[0] == 1 or shape[1] == 1)
NeedsFlatten(a) == a.ndim = 2 /\ (Shape0(a) = 1 \/ Shape1(a) = 1)

\* the body of the loop of combine_regime_labels, for one product
RegimePass(product, file) ==
    IF ~file.exists THEN Pass(MissingValue, Line("notfound", 0, {}), "")
    ELSE IF file.raises THEN Pass(MissingValue, Line("error", 0, {}), "")
    ELSE IF MainVars(file.data) # <<>>
    THEN LET var_name == MainVars(file.data)[1]
             loaded == DictGet(file.data, var_name)
             regime_data == IF NeedsFlatten(loaded) THEN Flatten(loaded) ELSE loaded
         IN  Pass(regime_data, Line("ok", PyLen(regime_data), UniqueValid(regime_data)), "")
    ELSE Pass(MissingValue, Line("novar", 0, {}), "")

LoopPass(c, product, file) ==
    IF c = "returns" THEN ReturnsPass(product, file)
    ELSE RegimePass(product, file)

(***************************************************************************)
(* The files a pass may meet.                                              *)
(***************************************************************************)
\* the keys loadmat adds to every result
MetaData ==
    << [k |-> "__header__", v |-> EmptyArr], [k |-> "__version__", v |-> EmptyArr],
       [k |-> "__globals__", v |-> EmptyArr] >>

AbsentFile == [exists |-> FALSE, raises |-> FALSE, data |-> <<>>]
\* a file loadmat cannot read
BrokenFile == [exists |-> TRUE, raises |-> TRUE, data |-> <<>>]
\* a file holding no variable
BareFile == [exists |-> TRUE, raises |-> FALSE, data |-> MetaData]
\* a file holding one variable
MatFile(name, value) ==
    [exists |-> TRUE, raises |-> FALSE, data |-> Append(MetaData, [k |-> name, v |-> value])]

Combiners == {"returns", "regime"}

\* the elements of a series: a number or NaN
Vals == {"1", "NaN"}

\* every matrix of 1..MaxDim rows and columns, and the empty 0 x 0 one
Matrices ==
    {Plain(<<>>)} \cup
    UNION {UNION {{Plain(m) : m \in [1..r -> [1..c -> Vals]]} : c \in 1..MaxDim} : r \in 1..MaxDim}

VarNames == {"returnsTable", "regimeLabels"}

FieldNameSet ==
    {"Timestamp", "Time", "Date", "DateTime", "Value", "nodalPrices", "regup_returns"}

\* the declared field lists: 1..MaxFields distinct names
FieldLists ==
    UNION {{fl \in [1..n -> FieldNameSet] : \A i, j \in 1..n : fl[i] = fl[j] => i = j}
           : n \in 1..MaxFields}

\* the column of the i-th field of a structured returnsTable, an N x 1 matrix
\* that names its field's position
Digits == <<"1", "2", "3", "4", "5", "6">>
FieldColumn(i) == Plain(<< <<Digits[i]>>, <<"NaN">> >>)

Structs == {Struct(fl, [i \in 1..Len(fl) |-> FieldColumn(i)]) : fl \in FieldLists}

\* the files of one pass: a regime-label file holds numeric arrays only
LoadFiles(c) ==
    {AbsentFile, BrokenFile, BareFile}
    \cup {MatFile(n, a) : n \in VarNames, a \in Matrices}
    \cup (IF c = "returns" THEN {MatFile("returnsTable", s) : s \in Structs} ELSE {})

NoPass == Pass(EmptyArr, Line("none", 0, {}), "")

LoadInit ==
    /\ lpc = "start"
    /\ lcombiner \in Combiners
    /\ lproduct \in {Products[i] : i \in 1..Len(Products)}
    /\ lfile \in LoadFiles(lcombiner)
    /\ lout = NoPass

\* the loop body, run on one product
LoadPass ==
    /\ lpc = "start"
    /\ lout' = LoopPass(lcombiner, lproduct, lfile)
    /\ lpc' = "done"
    /\ UNCHANGED <<lcombiner, lproduct, lfile>>

(***************************************************************************)
(* A whole run of a combiner: the loop over products, then the save, the   *)
(* verification and the return.                                            *)
(***************************************************************************)
\* the series of the i-th product's data file: a 1 x 2 row for the odd
\* products, an N x 1 column for the even ones, different from product to
\* product
DataSeries(i) ==
    IF i % 2 = 1 THEN Plain(<< <<Digits[(i + 1) \div 2], "NaN">> >>)
    ELSE Plain(<< <<Digits[i \div 2]>>, <<"NaN">>, <<"1">> >>)

\* the i-th product's data file: for combine_returns_tables the even
\* products' returnsTable is structured, with the series as its Value field
DataFile(c, i) ==
    IF c = "regime" THEN MatFile("regimeLabels", DataSeries(i))
    ELSE IF i % 2 = 1 THEN MatFile("returnsTable", DataSeries(i))
    ELSE MatFile("returnsTable",
                 Struct(<<"Timestamp", "Value">>, <<FieldColumn(1), DataSeries(i)>>))

\* a file without the variable the combiner looks for
NoVarFile(c) ==
    IF c = "regime" THEN BareFile ELSE MatFile("regimeLabels", Plain(<< <<"1">> >>))

\* what a run may find for its i-th product
PanelFiles(c, i) == {AbsentFile, BrokenFile, NoVarFile(c), DataFile(c, i)}

PanelInit ==
    /\ ppc = "loop"
    /\ combiner \in Combiners
    /\ idx = 1
    /\ combined = <<>>
    /\ log = <<>>
    /\ saved = <<>>
    /\ report = <<>>
    /\ result = "none"

StorePass_SkipFailed(d, product, out) ==
    IF out.line.kind = "ok" THEN DictSet(d, product, out.value) ELSE d

StorePass_ResetOnFailure(d, product, out) ==
    IF out.line.kind = "ok" THEN DictSet(d, product, out.value)
    ELSE DictSet(<<>>, product, out.value)

\* combined[product] = ..., on every path through the loop body
StorePass(d, product, out) == DictSet(d, product, out.value)

\* one pass of "for product in products"
PanelLoad ==
    /\ ppc = "loop"
    /\ \E file \in PanelFiles(combiner, idx) :
         LET out == LoopPass(combiner, Products[idx], file)
         IN  /\ combined' = StorePass(combined, Products[idx], out)
             /\ log' = Append(log, out.line)
    /\ idx' = idx + 1
    /\ ppc' = IF idx = Len(Products) THEN "save" ELSE "loop"
    /\ UNCHANGED <<combiner, saved, report, result>>

\* the field names of the struct savemat writes for a dict, which are the
\* dtype.names of the struct loadmat reads back
SaveMat(d) == DictKeys(d)

\* the verification of combine_returns_tables, one line per product
ReturnsReport(d) ==
    [i \in 1..Len(Products) |->
        IF DictHas(d, Products[i]) /\ PyLen(DictGet(d, Products[i])) > 0
        THEN [kind |-> "counts", n |-> PyLen(DictGet(d, Products[i])),
              valid |-> CountValid(DictGet(d, Products[i]))]
        ELSE [kind |-> "nodata", n |-> 0, valid |-> 0]]

\* [field[0] for field in regime_labels_struct.dtype.names or []]
FirstOfEach(names) == {<<Head(Chars(names[i]))>> : i \in 1..Len(names)}

\* the verification of combine_regime_labels, one line per product
RegimeReport(names) ==
    [i \in 1..Len(Products) |->
        IF Chars(Products[i]) \in FirstOfEach(names)
        THEN [kind |-> "present", n |-> 0, valid |-> 0]
        ELSE [kind |-> "missing", n |-> 0, valid |-> 0]]

\* the try block: savemat and loadmat succeed, the verification is printed,
\* the run returns True
PanelSaved ==
    /\ ppc = "save"
    /\ saved' = SaveMat(combined)
    /\ report' = IF combiner = "returns" THEN ReturnsReport(combined)
                 ELSE RegimeReport(saved')
    /\ result' = TRUE
    /\ ppc' = "done"
    /\ UNCHANGED <<combiner, idx, combined, log>>

\* the except block: savemat or loadmat raised, the run returns False
PanelSaveRaises ==
    /\ ppc = "save"
    /\ result' = FALSE
    /\ ppc' = "done"
    /\ UNCHANGED <<combiner, idx, combined, log, saved, report>>

(***************************************************************************)
(* verify_execution_readiness.py: main.  The file system does not change   *)
(* during a run: a file found missing by its existence check is missing    *)
(* when a later check opens it.                                            *)
(***************************************************************************)
\* essential_files
essential_files ==
    <<"userConfig.m", "runEmpiricalCopulaBootstrapping.m", "runSimulationEngine.m",
      "fit_copula_per_regime.m", "custom_infer.m">>

\* data_files
data_files ==
    <<"EDA_Results/returnsTable.mat", "EDA_Results/innovationsStruct.mat",
      "EDA_Results/regimeLabels.mat">>

\* fixes: the descriptions of the patterns looked for in fit_copula_per_regime.m
fixes ==
    <<"t-copula df integer conversion in fitting",
      "t-copula df integer validation in sampling",
      "Sample size validation", "Minimum sample size check">>

\* sim_fixes: the descriptions of the patterns looked for in runSimulationEngine.m
sim_fixes ==
    <<"Struct-based data structure support",
      "t-copula df integer validation in simulation",
      "Integer df parameter in copularnd call">>

\* a line a check prints: its subject and its mark
Printed(what, mark) == [what |-> what, mark |-> mark]

\* check_file_exists: the line printed; the call returns whether it is "ok"
check_file_exists(filepath, exists) ==
    Printed(filepath, IF exists THEN "ok" ELSE "fail")

\* check_code_fix: the pattern is found only in a file that can be opened
check_code_fix(description, exists, matches) ==
    Printed(description, IF exists /\ matches THEN "ok" ELSE "fail")

\* whether the existence check of an essential file printed "ok"
Exists(filename) ==
    \E i \in 1..Len(stdout) : stdout[i] = Printed(filename, "ok")

Gate_Overwrite(passed, line) == line.mark = "ok"

\* if not check(...): all_checks_passed = False
Gate(passed, line) == IF line.mark # "ok" THEN FALSE ELSE passed

ReadyInit ==
    /\ rpc = "essential"
    /\ rk = 1
    /\ all_checks_passed = TRUE
    /\ stdout = <<>>
    /\ summary = "none"
    /\ rresult = "none"

\* 1. one pass of the loop over essential_files
CheckEssential ==
    /\ rpc = "essential"
    /\ \E exists \in BOOLEAN :
         LET line == check_file_exists(essential_files[rk], exists)
         IN  /\ stdout' = Append(stdout, line)
             /\ all_checks_passed' = Gate(all_checks_passed, line)
    /\ IF rk = Len(essential_files) THEN rpc' = "data" /\ rk' = 1
       ELSE rpc' = rpc /\ rk' = rk + 1
    /\ UNCHANGED <<summary, rresult>>

\* 2. one pass of the loop over data_files
CheckData ==
    /\ rpc = "data"
    /\ \E exists \in BOOLEAN :
         LET line == check_file_exists(data_files[rk], exists)
         IN  /\ stdout' = Append(stdout, line)
             /\ all_checks_passed' = Gate(all_checks_passed, line)
    /\ IF rk = Len(data_files) THEN rpc' = "cleanup" /\ rk' = 1
       ELSE rpc' = rpc /\ rk' = rk + 1
    /\ UNCHANGED <<summary, rresult>>

\* 3. the old copula structure: a confirmation or a warning, never a failure
CheckCleanup ==
    /\ rpc = "cleanup"
    /\ \E exists \in BOOLEAN :
         stdout' = Append(stdout, Printed("EDA_Results/copulaStruct.mat",
                                    IF ~exists THEN "ok" ELSE "warn"))
    /\ rpc' = "fixes"
    /\ UNCHANGED <<rk, all_checks_passed, summary, rresult>>

\* 4. one pass of the loop over fixes
CheckFitFix ==
    /\ rpc = "fixes"
    /\ \E matches \in BOOLEAN :
         LET line == check_code_fix(fixes[rk], Exists("fit_copula_per_regime.m"), matches)
         IN  /\ stdout' = Append(stdout, line)
             /\ all_checks_passed' = Gate(all_checks_passed, line)
    /\ IF rk = Len(fixes) THEN rpc' = "sim_fixes" /\ rk' = 1
       ELSE rpc' = rpc /\ rk' = rk + 1
    /\ UNCHANGED <<summary, rresult>>

\* 4. one pass of the loop over sim_fixes
CheckSimFix ==
    /\ rpc = "sim_fixes"
    /\ \E matches \in BOOLEAN :
         LET line == check_code_fix(sim_fixes[rk], Exists("runSimulationEngine.m"), matches)
         IN  /\ stdout' = Append(stdout, line)
             /\ all_checks_passed' = Gate(all_checks_passed, line)
    /\ IF rk = Len(sim_fixes) THEN rpc' = "config" /\ rk' = 1
       ELSE rpc' = rpc /\ rk' = rk + 1
    /\ UNCHANGED <<summary, rresult>>

\* 5. the configuration check: its line is printed, its result only decides
\* whether a note follows
CheckConfig ==
    /\ rpc = "config"
    /\ \E matches \in BOOLEAN :
         LET line == check_code_fix("t-copula configuration", Exists("userConfig.m"), matches)
         IN  stdout' = IF line.mark = "ok"
                    THEN stdout \o <<line, Printed("System configured to use t-copulas", "note")>>
                    ELSE Append(stdout, line)
    /\ rpc' = "summary"
    /\ UNCHANGED <<rk, all_checks_passed, summary, rresult>>

\* 6. the summary and the return
Summary ==
    /\ rpc = "summary"
    /\ summary' = IF all_checks_passed THEN "ALL CHECKS PASSED!" ELSE "SOME CHECKS FAILED!"
    /\ rresult' = all_checks_passed
    /\ rpc' = "done"
    /\ UNCHANGED <<rk, all_checks_passed, stdout>>

(***************************************************************************)
(* verifyRobustImplementation.py: main.  The file system does not change   *)
(* during a run, and the files main opens itself are readable text.        *)
(***************************************************************************)
\* core_files
core_files ==
    <<"robustOutlierDetection.m", "enhancedDataPreprocessing.m",
      "robustBayesianOptSafety.m", "testRobustIntegration.m", "validateRobustSystem.m">>

\* enhanced_files
enhanced_files ==
    <<"data_cleaning.m", "bayesoptSimObjective.m", "runBayesianTuning.m",
      "runSimulationAndScenarioGeneration.m", "userConfig.m">>

\* guide_file
guide_file == "ROBUST_SYSTEM_GUIDE.md"

\* what check_matlab_syntax may find in a file: whether it can be read, and
\* whether 'function\s+' and '\bend\b' occur in it
MatlabSources ==
    [readable : {TRUE}, has_function : BOOLEAN, has_end : BOOLEAN]
    \cup {[readable |-> FALSE, has_function |-> FALSE, has_end |-> FALSE]}

\* check_matlab_syntax: the list of issues
check_matlab_syntax(content) ==
    IF ~content.readable THEN <<"Error reading file">>
    ELSE (IF ~content.has_function THEN <<"No function definition found">> ELSE <<>>)
         \o (IF content.has_function /\ ~content.has_end
             THEN <<"Missing 'end' statements">> ELSE <<>>)

Status_NinetyPercent(present_files, total_files) ==
    IF present_files = total_files THEN "SYSTEM READY FOR TESTING"
    ELSE IF present_files * 10 >= total_files * 9 THEN "SYSTEM MOSTLY READY"
    ELSE "SYSTEM NOT READY"

\* the overall status: present_files == total_files, then
\* present_files >= total_files * 0.8 (0.8 as 8/10), then the rest
Status(present_files, total_files) ==
    IF present_files = total_files THEN "SYSTEM READY FOR TESTING"
    ELSE IF present_files * 10 >= total_files * 8 THEN "SYSTEM MOSTLY READY"
    ELSE "SYSTEM NOT READY"

RobustInit ==
    /\ vpc = "core"
    /\ vk = 1
    /\ core_files_present = 0
    /\ enhanced_files_present = 0
    /\ found = {}
    /\ notes = [syntax |-> 0, integration |-> 0, guide |-> "none"]
    /\ status = <<>>

\* 1. one pass of the loop over core_files: the file counts when it exists,
\* and its syntax check prints a warning or an OK
CoreFile ==
    /\ vpc = "core"
    /\ \/ /\ found' = found \cup {core_files[vk]}
          /\ core_files_present' = core_files_present + 1
          /\ \E content \in MatlabSources :
               notes' = IF check_matlab_syntax(content) # <<>>
                        THEN [notes EXCEPT !.syntax = @ + 1] ELSE notes
       \/ UNCHANGED <<found, core_files_present, notes>>
    /\ IF vk = Len(core_files) THEN vpc' = "enhanced" /\ vk' = 1
       ELSE vpc' = vpc /\ vk' = vk + 1
    /\ UNCHANGED <<enhanced_files_present, status>>

\* 2. one pass of the loop over enhanced_files
EnhancedFile ==
    /\ vpc = "enhanced"
    /\ \/ /\ found' = found \cup {enhanced_files[vk]}
          /\ enhanced_files_present' = enhanced_files_present + 1
       \/ UNCHANGED <<found, enhanced_files_present>>
    /\ IF vk = Len(enhanced_files) THEN vpc' = "integration" /\ vk' = 1
       ELSE vpc' = vpc /\ vk' = vk + 1
    /\ UNCHANGED <<core_files_present, notes, status>>

\* the files of the three integration points, in the order main reads them
integration_files ==
    <<"runSimulationAndScenarioGeneration.m", "runBayesianTuning.m", "userConfig.m">>

\* 3. one integration point: when its file exists, its text holds the words
\* looked for or a "not found" line is printed
IntegrationPoint ==
    /\ vpc = "integration"
    /\ IF integration_files[vk] \in found
       THEN \E integrated \in BOOLEAN :
               notes' = IF integrated THEN notes
                        ELSE [notes EXCEPT !.integration = @ + 1]
       ELSE UNCHANGED notes
    /\ IF vk = Len(integration_files) THEN vpc' = "documentation" /\ vk' = 1
       ELSE vpc' = vpc /\ vk' = vk + 1
    /\ UNCHANGED <<core_files_present, enhanced_files_present, found, status>>

\* 4. the guide: when it exists, it is substantial or may be incomplete
Documentation ==
    /\ vpc = "documentation"
    /\ \/ /\ found' = found \cup {guide_file}
          /\ \E substantial \in BOOLEAN :
               notes' = [notes EXCEPT !.guide =
                            IF substantial THEN "substantial" ELSE "incomplete"]
       \/ /\ notes' = [notes EXCEPT !.guide = "missing"]
          /\ UNCHANGED found
    /\ vpc' = "status"
    /\ UNCHANGED <<vk, core_files_present, enhanced_files_present, status>>

\* 5. the overall status
OverallStatus ==
    /\ vpc = "status"
    /\ LET total_files == Len(core_files) + Len(enhanced_files) + 1
           present_files == core_files_present + enhanced_files_present
                            + (IF guide_file \in found THEN 1 ELSE 0)
       IN  status' = Append(status, Status(present_files, total_files))
    /\ vpc' = "done"
    /\ UNCHANGED <<vk, core_files_present, enhanced_files_present, found, notes>>

(***************************************************************************)
(* The specifications: one per script, the other scripts' state at rest.   *)
(***************************************************************************)
GuardIdle ==
    /\ gpc = "idle"
    /\ nu = 0
    /\ size = 0
    /\ df = 0
    /\ nSim = 0
    /\ sampling = "none"
    /\ origin = "none"
    /\ df_int = 0

LoadIdle ==
    /\ lpc = "idle"
    /\ lcombiner = "none"
    /\ lproduct = ""
    /\ lfile = AbsentFile
    /\ lout = NoPass

PanelIdle ==
    /\ ppc = "idle"
    /\ combiner = "none"
    /\ idx = 0
    /\ combined = <<>>
    /\ log = <<>>
    /\ saved = <<>>
    /\ report = <<>>
    /\ result = "none"

ReadyIdle ==
    /\ rpc = "idle"
    /\ rk = 0
    /\ all_checks_passed = TRUE
    /\ stdout = <<>>
    /\ summary = "none"
    /\ rresult = "none"

RobustIdle ==
    /\ vpc = "idle"
    /\ vk = 0
    /\ core_files_present = 0
    /\ enhanced_files_present = 0
    /\ found = {}
    /\ notes = [syntax |-> 0, integration |-> 0, guide |-> "none"]
    /\ status = <<>>

GuardNext ==
    \/ FitCoerce /\ UNCHANGED <<lvars, pvars, rvars, vvars>>
    \/ SizeCheck /\ UNCHANGED <<lvars, pvars, rvars, vvars>>
    \/ LoadStored /\ UNCHANGED <<lvars, pvars, rvars, vvars>>
    \/ SampleCoerce /\ UNCHANGED <<lvars, pvars, rvars, vvars>>

GuardStart == GuardInit /\ LoadIdle /\ PanelIdle /\ ReadyIdle /\ RobustIdle

SpecGuard == GuardStart /\ [][GuardNext]_vars

LoadNext == LoadPass /\ UNCHANGED <<gvars, pvars, rvars, vvars>>

LoadStart == LoadInit /\ GuardIdle /\ PanelIdle /\ ReadyIdle /\ RobustIdle

SpecLoad == LoadStart /\ [][LoadNext]_vars

PanelNext ==
    \/ PanelLoad /\ UNCHANGED <<gvars, lvars, rvars, vvars>>
    \/ PanelSaved /\ UNCHANGED <<gvars, lvars, rvars, vvars>>
    \/ PanelSaveRaises /\ UNCHANGED <<gvars, lvars, rvars, vvars>>

PanelStart == PanelInit /\ GuardIdle /\ LoadIdle /\ ReadyIdle /\ RobustIdle

SpecPanel == PanelStart /\ [][PanelNext]_vars


ReadyNext ==
    \/ CheckEssential /\ UNCHANGED <<gvars, lvars, pvars, vvars>>
    \/ CheckData /\ UNCHANGED <<gvars, lvars, pvars, vvars>>
    \/ CheckCleanup /\ UNCHANGED <<gvars, lvars, pvars, vvars>>
    \/ CheckFitFix /\ UNCHANGED <<gvars, lvars, pvars, vvars>>
    \/ CheckSimFix /\ UNCHANGED <<gvars, lvars, pvars, vvars>>
    \/ CheckConfig /\ UNCHANGED <<gvars, lvars, pvars, vvars>>
    \/ Summary /\ UNCHANGED <<gvars, lvars, pvars, vvars>>

ReadyStart == ReadyInit /\ GuardIdle /\ LoadIdle /\ PanelIdle /\ RobustIdle

SpecReady == ReadyStart /\ [][ReadyNext]_vars

RobustNext ==
    \/ CoreFile /\ UNCHANGED <<gvars, lvars, pvars, rvars>>
    \/ EnhancedFile /\ UNCHANGED <<gvars, lvars, pvars, rvars>>
    \/ IntegrationPoint /\ UNCHANGED <<gvars, lvars, pvars, rvars>>
    \/ Documentation /\ UNCHANGED <<gvars, lvars, pvars, rvars>>
    \/ OverallStatus /\ UNCHANGED <<gvars, lvars, pvars, rvars>>

RobustStart == RobustInit /\ GuardIdle /\ LoadIdle /\ PanelIdle /\ ReadyIdle

SpecRobust == RobustStart /\ [][RobustNext]_vars

(***************************************************************************)
(* C1: whatever the raw estimate nu, the coerced degrees of freedom is an  *)
(* integer, is at least 1, lies within 1/2 of max(1, nu), and is exactly 1 *)
(* whenever nu <= 1.                                                       *)
(***************************************************************************)
C1_GuardCoercion ==
    gpc \in {"fitted", "done"} =>
        /\ df % Den = 0
        /\ df >= Fix(1)
        /\ LET m == IF nu < Fix(1) THEN Fix(1) ELSE nu
               d == IF df >= m THEN df - m ELSE m - df
           IN  2 * d <= Den
        /\ (nu <= Fix(1) => df = Fix(1))

\* a fractional estimate above 1 that sits on a tie has been coerced
C1_Witness ==
    /\ gpc = "fitted"
    /\ nu > Fix(1)
    /\ 2 * (nu % Den) = Den
    /\ df # nu

(***************************************************************************)
(* C2: the sample count is min(cap, n) for a whole count n, so it exceeds  *)
(* neither; sampling proceeds exactly when the count is at least 2, that   *)
(* is exactly when n >= 2.                                                 *)
(***************************************************************************)
C2_SampleFloor ==
    gpc = "done" =>
        /\ nSim % Den = 0
        /\ nSim <= Fix(Cap)
        /\ nSim <= size
        /\ (nSim = size \/ nSim = Fix(Cap))
        /\ (sampling = "proceed" <=> nSim >= Fix(2))
        /\ (sampling = "skip" <=> nSim < Fix(2))
        /\ (sampling = "proceed" <=> size >= Fix(2))

\* a size above the cap has been cut to the cap and sampling proceeds
C2_Witness ==
    /\ gpc = "done"
    /\ size > Fix(Cap)
    /\ nSim = Fix(Cap)
    /\ sampling = "proceed"

\* the field list of the structured returnsTable a finished pass has read
PassFieldNames == DictGet(lfile.data, "returnsTable").names

\* a finished pass of combine_returns_tables over a structured returnsTable
StructuredPassDone == lpc = "done" /\ lcombiner = "returns" /\ lout.field # ""

(***************************************************************************)
(* C4: the data field of a structured returnsTable is chosen by            *)
(* precedence: a field whose name contains the product name if there is    *)
(* one, wherever it stands; otherwise the first field whose name has no    *)
(* time or date in it; otherwise the first field.                          *)
(***************************************************************************)
C4_FieldPrecedence ==
    StructuredPassDone =>
        LET fl == PassFieldNames
            withProduct == {i \in 1..Len(fl) : Contains(Chars(lproduct), Chars(fl[i]))}
            nonTime == {i \in 1..Len(fl) : IsNonTime(fl[i])}
        IN  IF withProduct # {}
            THEN Contains(Chars(lproduct), Chars(lout.field))
            ELSE IF nonTime # {}
            THEN lout.field = fl[CHOOSE i \in nonTime : \A j \in nonTime : i <= j]
            ELSE lout.field = fl[1]

(***************************************************************************)
(* C5: on the two reference inputs the choice is the expected one: fields  *)
(* [Timestamp, nodalPrices] give nodalPrices for product nodalPrices, and  *)
(* fields [Time, Value] give Value for product regup; the second field's   *)
(* column is what is stored.                                               *)
(***************************************************************************)
C5_ReferenceSelection ==
    StructuredPassDone =>
        /\ (lproduct = "nodalPrices" /\ PassFieldNames = <<"Timestamp", "nodalPrices">>
               => lout.field = "nodalPrices" /\ lout.value = Flatten(FieldColumn(2)))
        /\ (lproduct = "regup" /\ PassFieldNames = <<"Time", "Value">>
               => lout.field = "Value" /\ lout.value = Flatten(FieldColumn(2)))

\* the second reference input has been resolved
C5_Witness ==
    /\ StructuredPassDone
    /\ lproduct = "regup"
    /\ PassFieldNames = <<"Time", "Value">>
    /\ lout.field = "Value"
    /\ lout.value = Vec(<<"2", "NaN">>)

\* the series a finished pass has read from its file
PassSeries ==
    IF lcombiner = "returns"
    THEN IF lout.field # ""
         THEN FieldOf(DictGet(lfile.data, "returnsTable"), lout.field)
         ELSE DictGet(lfile.data, "returnsTable")
    ELSE DictGet(lfile.data, MainVars(lfile.data)[1])

(***************************************************************************)
(* C8: a loaded series of shape 1 x N or N x 1 is stored as a one-         *)
(* dimensional sequence of length N with the same values in the same       *)
(* order.                                                                  *)
(***************************************************************************)
C8_FlattenKeepsValues ==
    (lpc = "done" /\ lout.line.kind = "ok") =>
        LET s == PassSeries
        IN  /\ (s.ndim = 2 /\ Shape0(s) = 1 =>
                  /\ lout.value.ndim = 1
                  /\ Len(lout.value.vec) = Shape1(s)
                  /\ \A i \in 1..Shape1(s) : lout.value.vec[i] = s.rows[1][i])
            /\ (s.ndim = 2 /\ Shape1(s) = 1 =>
                  /\ lout.value.ndim = 1
                  /\ Len(lout.value.vec) = Shape0(s)
                  /\ \A i \in 1..Shape0(s) : lout.value.vec[i] = s.rows[i][1])

\* an N x 1 regime-label column with two different values has been stored
C8_Witness ==
    /\ lpc = "done"
    /\ lcombiner = "regime"
    /\ lout.line.kind = "ok"
    /\ PassSeries = Plain(<< <<"1">>, <<"NaN">> >>)
    /\ lout.value = Vec(<<"1", "NaN">>)

\* the passes of the loop a run has made
PassesDone == 1..(idx - 1)

\* the loop of a run is over
LoopOver == ppc \in {"save", "done"}

\* the i-th product could not be loaded
PassFailed(i) == log[i].kind \in {"notfound", "error", "novar"}

(***************************************************************************)
(* C3: at every point of a run the keys of the panel are the products      *)
(* handled so far, in universe order; once the loop is over they are       *)
(* exactly the eight products, and each value is the product's loaded      *)
(* series or the empty sequence.                                           *)
(***************************************************************************)
C3_PanelTotality ==
    ppc \in {"loop", "save", "done"} =>
        /\ DictKeys(combined) = SubSeq(Products, 1, idx - 1)
        /\ (LoopOver => DictKeys(combined) = Products)
        /\ \A i \in PassesDone :
              \/ DictGet(combined, Products[i]) = EmptyArr
              \/ /\ log[i].kind = "ok"
                 /\ Elements(DictGet(combined, Products[i])) = Elements(DataSeries(i))

\* a finished loop in which a product was absent, one raised, one lacked its
\* variable, one was a bare array and one a structured record
C3_Witness ==
    /\ ppc = "save"
    /\ combiner = "returns"
    /\ log[1].kind = "notfound"
    /\ log[2].kind = "error"
    /\ log[3].kind = "novar"
    /\ log[5].kind = "ok"
    /\ log[6].kind = "ok"
    /\ DictKeys(combined) = Products

(***************************************************************************)
(* C6: a product that could not be loaded has the empty sequence under its *)
(* key; every other product keeps its own series whatever happened to the  *)
(* rest; the loop runs over all eight products; and the run returns True   *)
(* exactly when the save did not raise, however many products are missing. *)
(***************************************************************************)
C6_PerProductDegradation ==
    ppc \in {"loop", "save", "done"} =>
        /\ Len(log) = idx - 1
        /\ \A i \in PassesDone :
              /\ DictHas(combined, Products[i])
              /\ (PassFailed(i) => DictGet(combined, Products[i]) = EmptyArr)
              /\ (~PassFailed(i) =>
                    DictGet(combined, Products[i]) = Vec(Elements(DataSeries(i))))
        /\ (LoopOver => idx = Len(Products) + 1)
        /\ (ppc = "done" => (result = TRUE <=> saved = Products))
        /\ (ppc = "done" => (result = FALSE <=> saved = <<>>))

\* every product was missing, the save went through and the run returned True
C6_Witness ==
    /\ ppc = "done"
    /\ \A i \in 1..Len(Products) : PassFailed(i)
    /\ \E i, j, k \in 1..Len(Products) :
          log[i].kind = "notfound" /\ log[j].kind = "error" /\ log[k].kind = "novar"
    /\ result = TRUE

(***************************************************************************)
(* C7: every run, whatever its loads and its save did, has reported for    *)
(* each product its observation count and its count of non-NaN values      *)
(* when it returns ("No data" standing for a count of zero).               *)
(***************************************************************************)
C7_DiagnosticsAlways ==
    ppc = "done" =>
        /\ Len(report) = Len(Products)
        /\ \A i \in 1..Len(report) : report[i].kind \in {"counts", "nodata"}

(***************************************************************************)
(* C9: after a save the verification of combine_regime_labels reports a    *)
(* product present exactly when its name is a field of the reloaded        *)
(* struct, and so reports all eight products present.                      *)
(***************************************************************************)
C9_RoundTripPresence ==
    (ppc = "done" /\ combiner = "regime" /\ result = TRUE) =>
        /\ Len(report) = Len(Products)
        /\ \A i \in 1..Len(report) :
              /\ (report[i].kind = "present" <=>
                    Products[i] \in {saved[j] : j \in 1..Len(saved)})
              /\ report[i].kind = "present"

(***************************************************************************)
(* C10: a finished run has printed "ALL CHECKS PASSED!" and returned True  *)
(* only if no check printed a failure line, the configuration check        *)
(* included; and if any check printed a failure line it has printed        *)
(* "SOME CHECKS FAILED!" and returned False.                               *)
(***************************************************************************)
C10_PassOnlyIfAllChecksPassed ==
    rpc = "done" =>
        LET failed == \E i \in 1..Len(stdout) : stdout[i].mark = "fail"
        IN  /\ (summary = "ALL CHECKS PASSED!" \/ rresult = TRUE) => ~failed
            /\ failed => (summary = "SOME CHECKS FAILED!" /\ rresult = FALSE)

\* a check that gates the result printed a failure line: any failure line
\* but that of the configuration check
GatingFailed ==
    \E i \in 1..Len(stdout) :
        stdout[i].mark = "fail" /\ stdout[i].what # "t-copula configuration"

\* C10 as amended: a finished run has printed "ALL CHECKS PASSED!" and
\* returned True exactly when none of the fifteen file and fix checks printed
\* a failure line, and "SOME CHECKS FAILED!" and False otherwise; the
\* configuration check changes neither; and the pass flag, once False, is
\* never True again.
C10_PassIffGatingChecksPassed ==
    /\ [](rpc = "done" =>
            /\ (rresult = TRUE <=> ~GatingFailed)
            /\ (rresult = TRUE <=> summary = "ALL CHECKS PASSED!")
            /\ (rresult = FALSE <=> summary = "SOME CHECKS FAILED!")
            /\ rresult = all_checks_passed)
    /\ [][all_checks_passed = FALSE => all_checks_passed' = FALSE]_vars

\* the configuration check failed alone and the run still passed
C10_Witness ==
    /\ rpc = "done"
    /\ \E i \in 1..Len(stdout) :
          stdout[i] = Printed("t-copula configuration", "fail")
    /\ ~GatingFailed
    /\ summary = "ALL CHECKS PASSED!"
    /\ rresult = TRUE

\* the number of the eleven required files that exist
PresentFiles == Cardinality(found)

(***************************************************************************)
(* C11: a finished run has reported exactly one overall status, decided by *)
(* the number p of the eleven required files that exist, 0 <= p <= 11:     *)
(* READY FOR TESTING iff p = 11, MOSTLY READY iff p is 9 or 10, NOT READY  *)
(* iff p <= 8, whatever the syntax and integration checks printed.         *)
(***************************************************************************)
C11_StatusByPresentFiles ==
    vpc = "done" =>
        /\ PresentFiles \in 0..11
        /\ found \subseteq ({core_files[i] : i \in 1..Len(core_files)}
                            \cup {enhanced_files[i] : i \in 1..Len(enhanced_files)}
                            \cup {guide_file})
        /\ Len(status) = 1
        /\ (status[1] = "SYSTEM READY FOR TESTING" <=> PresentFiles = 11)
        /\ (status[1] = "SYSTEM MOSTLY READY" <=> PresentFiles \in {9, 10})
        /\ (status[1] = "SYSTEM NOT READY" <=> PresentFiles <= 8)

\* nine files exist, syntax warnings and integration misses were printed,
\* and the status is MOSTLY READY
C11_Witness ==
    /\ vpc = "done"
    /\ PresentFiles = 9
    /\ notes.syntax > 0
    /\ notes.integration > 0
    /\ status = <<"SYSTEM MOSTLY READY">>

(***************************************************************************)
(* C12: the sample-side coercion of a degrees of freedom that was coerced  *)
(* at fit time returns that same value, round(max(1, round(max(1, x)))) =  *)
(* round(max(1, x)); it changes a stored value only when that value was    *)
(* not stored through the guard, and then only one that is not a whole     *)
(* number >= 1.                                                            *)
(***************************************************************************)
C12_GuardIdempotent ==
    gpc = "sampled" =>
        /\ (origin = "fit" => df_int = df)
        /\ (df_int # df => origin = "loaded" /\ (df % Den # 0 \/ df < Fix(1)))
        /\ df_int % Den = 0
        /\ df_int >= Fix(1)

\* a fractional estimate above 1 was coerced at fit time and the sample side
\* has left the fitted value as it was
C12_Witness ==
    /\ gpc = "sampled"
    /\ origin = "fit"
    /\ nu > Fix(1)
    /\ nu % Den # 0
    /\ df # nu
    /\ df_int = df

====
